---- MODULE Spec2Model ----
(***************************************************************************)
(* Luna cycle tracker: the cycle statistics engine (calculateCycleStats),  *)
(* the phase classifier (getCyclePhase) and the per-day resolver           *)
(* (getDayStatus), together with the App state they read (logs, settings, *)
(* the memoised stats) and the handlers that change it.                    *)
(*                                                                         *)
(* Representation.  A date string 'yyyy-MM-dd' is the tuple <<y, m, d>>;   *)
(* the empty string / undefined / null is the empty tuple.  A JS Date at   *)
(* local midnight is its day number since 1970-01-01; Invalid Date is      *)
(* InvalidDate.  A "number | null" is <<>> for null and <<n>> for n.       *)
(* A string holding JSON is a record with the value it parses to, and an   *)
(* object is a function from the names of its defined properties.          *)
(*                                                                         *)
(* Specifications.  Spec: the open app, every handler followed by its      *)
(* render and effects.  PhaseSpec: the settings form on its own.  LifeSpec:*)
(* start-up from localStorage, use, reload.  BatchSpec: several handlers   *)
(* before one render.  BackupSpec: export and import of a backup (App 5.0).*)
(* ModalSpec: the day-entry modal with its water and sleep counters.      *)
(* DiarySpec: entries saved and deleted under unchanged settings.         *)
(***************************************************************************)
EXTENDS Integers, Sequences, FiniteSets, TLC

(* ---------------------------------------------------------------- bounds *)
\* number of consecutive calendar days, from FirstDay on, that can be logged
NumDays == 6

\* largest cycle length and period length typed into the settings form
MaxCycle == 30
MaxPeriod == 5

\* number of days offered for the manual last-period date, ending today
PhaseSpan == 13

\* largest number of state updates queued before a render
MaxPending == 2

\* largest number of glasses and of hours the counters of the day entry are
\* clicked up to
MaxWater == 3
MaxSleep == 9

(* ------------------------------------------------------------ App state *)
VARIABLES
  logs,      \* Record<string, DayLog>: a function from date strings to DayLog
  settings,  \* UserSettings
  today,     \* startOfToday(), the wall clock's calendar day
  stats,     \* the memoised calculateCycleStats(logs, settings)
  statsDay,  \* the calendar day on which the memo was last computed
  nextPeriodIn, \* the memoised days until stats.nextPeriodDate, or null
  pending,   \* state updates queued by setLogs / setSettings, not yet rendered
  storage,   \* localStorage: the items stored under the logs and settings keys
  pc,        \* where the component is: "mount", "loaded", "persisted",
             \* "running", or "reading" while a backup file is being read
  backup,    \* the backup document last exported, or null
  modal      \* the state of the open DayModal, or null while it is closed

vars == <<logs, settings, today, stats, statsDay, nextPeriodIn, pending, storage,
          pc, backup, modal>>

(* ------------------------------------------------------------- date-fns *)
Null == <<>>

InvalidDate == -1000000

IsLeap(y) == (y % 4 = 0 /\ y % 100 # 0) \/ y % 400 = 0

DaysInMonth(y, m) ==
  IF m = 2 THEN (IF IsLeap(y) THEN 29 ELSE 28)
  ELSE IF m \in {4, 6, 9, 11} THEN 30 ELSE 31

LeapsBefore(y) == ((y - 1) \div 4) - ((y - 1) \div 100) + ((y - 1) \div 400)

DaysBeforeYear(y) == 365 * (y - 1970) + LeapsBefore(y) - LeapsBefore(1970)

\* days of a common year that precede each month
CumulativeDays == <<0, 31, 59, 90, 120, 151, 181, 212, 243, 273, 304, 334>>

DaysBeforeMonth(y, m) ==
  CumulativeDays[m] + (IF m > 2 /\ IsLeap(y) THEN 1 ELSE 0)

\* the years the model's calendar spans
Years == 2023..2025

\* mutant: a day number up to 31 is accepted in every month
IsCalendarDate_AnyDay(s) ==
  /\ Len(s) = 3
  /\ s[1] \in Years
  /\ s[2] \in 1..12
  /\ s[3] \in 1..31

\* is the string a well-formed calendar date
IsCalendarDate(s) ==
  /\ Len(s) = 3
  /\ s[1] \in Years
  /\ s[2] \in 1..12
  /\ s[3] \in 1..DaysInMonth(s[1], s[2])

\* parseISO('yyyy-MM-dd'): local midnight of that day, or Invalid Date
parseISO(s) ==
  IF IsCalendarDate(s)
  THEN DaysBeforeYear(s[1]) + DaysBeforeMonth(s[1], s[2]) + (s[3] - 1)
  ELSE InvalidDate

isValid(d) == d # InvalidDate

\* format(date, 'yyyy-MM-dd'), computed from the day number
FormatOf(date) ==
  LET y == CHOOSE yy \in Years :
             DaysBeforeYear(yy) <= date /\ date < DaysBeforeYear(yy + 1)
      r == date - DaysBeforeYear(y)
      m == CHOOSE mm \in 1..12 :
             /\ DaysBeforeMonth(y, mm) <= r
             /\ r < DaysBeforeMonth(y, mm) + DaysInMonth(y, mm)
  IN  <<y, m, r - DaysBeforeMonth(y, m) + 1>>

\* format(date, 'yyyy-MM-dd') for every day of the model's calendar
FormatTable ==
  [date \in DaysBeforeYear(2023)..(DaysBeforeYear(2026) - 1) |-> FormatOf(date)]

formatDate(date) == FormatTable[date]

addDays(date, amount) == date + amount

subDays(date, amount) == addDays(date, 0 - amount)

\* both arguments are local midnights, so the full-day difference is exact
differenceInDays(dateLeft, dateRight) == dateLeft - dateRight

\* String.prototype.localeCompare on two 'yyyy-MM-dd' strings: < 0, 0 or > 0
localeCompare(a, b) ==
  IF a[1] # b[1] THEN (IF a[1] < b[1] THEN -1 ELSE 1)
  ELSE IF a[2] # b[2] THEN (IF a[2] < b[2] THEN -1 ELSE 1)
  ELSE IF a[3] # b[3] THEN (IF a[3] < b[3] THEN -1 ELSE 1)
  ELSE 0

(* ------------------------------------------------------ JS number helpers *)
Abs(x) == IF x < 0 THEN 0 - x ELSE x

\* a % b of JavaScript for b # 0: the result takes the sign of the dividend
JsRem(a, b) == IF a >= 0 THEN a % Abs(b) ELSE 0 - ((0 - a) % Abs(b))

\* mutant: the quotient is truncated instead of rounded
MathRoundDiv_Floor(num, den) == num \div den

\* Math.round(num / den) for num >= 0, den > 0: halves round up
MathRoundDiv(num, den) == (2 * num + den) \div (2 * den)

RECURSIVE SumSeq(_)
SumSeq(s) == IF s = <<>> THEN 0 ELSE Head(s) + SumSeq(Tail(s))

(* ------------------------------------------------------------ dateUtils *)
\* `settings?.field`: undefined when settings is undefined or lacks the field
Optional(sett, field) == IF field \in DOMAIN sett THEN sett[field] ELSE Null

\* mutant: `x ?? fallback`, which keeps 0
OrNumber_Nullish(x, fallback) == IF x = Null THEN fallback ELSE x[1]

\* `x || fallback` on an optional number: undefined and 0 are falsy
OrNumber(x, fallback) == IF x = Null \/ x = <<0>> THEN fallback ELSE x[1]

\* `x || null` on an optional string: undefined and '' are falsy
OrNull(x) == IF x = Null THEN Null ELSE x

\* mutant: the isPeriod filter is dropped
PeriodLogs_NoFilter(lg) == {lg[k] : k \in DOMAIN lg}

\* mutant: a log with an intensity counts as a period day too
PeriodLogs_OrIntensity(lg) ==
  {lg[k] : k \in {kk \in DOMAIN lg :
                    lg[kk].isPeriod \/ "intensity" \in DOMAIN lg[kk]}}

\* Object.values(logs).filter(log => log.isPeriod)
PeriodLogs(lg) == {lg[k] : k \in {kk \in DOMAIN lg : lg[kk].isPeriod}}

\* .sort((a, b) => a.date.localeCompare(b.date)), kept as the sequence of dates
RECURSIVE SortByDate(_)
SortByDate(S) ==
  IF S = {} THEN <<>>
  ELSE LET first == CHOOSE a \in S :
                      \A b \in S : localeCompare(a.date, b.date) <= 0
       IN  <<first.date>> \o SortByDate(S \ {first})

\* mutant: a gap of one unlogged day still extends the group
Extends_GapTolerant(periodDays, i) ==
  /\ i > 1
  /\ differenceInDays(parseISO(periodDays[i]), parseISO(periodDays[i - 1])) <= 2

\* mutant: every period day opens a group of its own
Extends_Never(periodDays, i) == FALSE

\* does periodDays[i] extend the current group
Extends(periodDays, i) ==
  /\ i > 1
  /\ differenceInDays(parseISO(periodDays[i]), parseISO(periodDays[i - 1])) = 1

\* the grouping loop over periodDays[i..]; returns the final periods
RECURSIVE GroupLoop(_, _, _, _)
GroupLoop(periodDays, i, periods, currentPeriod) ==
  IF i > Len(periodDays)
  THEN (IF Len(currentPeriod) > 0 THEN Append(periods, currentPeriod) ELSE periods)
  ELSE IF Extends(periodDays, i)
       THEN GroupLoop(periodDays, i + 1, periods,
                      Append(currentPeriod, periodDays[i]))
       ELSE GroupLoop(periodDays, i + 1,
                      IF Len(currentPeriod) > 0
                      THEN Append(periods, currentPeriod) ELSE periods,
                      <<periodDays[i]>>)

GroupPeriods(periodDays) == GroupLoop(periodDays, 1, <<>>, <<>>)

\* differences between successive group starts
CycleIntervals(periods) ==
  [i \in 1..(Len(periods) - 1) |->
     differenceInDays(parseISO(periods[i + 1][1]), parseISO(periods[i][1]))]

PeriodLengths(periods) == [i \in 1..Len(periods) |-> Len(periods[i])]

\* mutant: the sum of the intervals is divided by the number of groups
CycleLengthOf_DivByGroups(periods, sett) ==
  IF Len(periods) > 1
  THEN MathRoundDiv(SumSeq(CycleIntervals(periods)), Len(periods))
  ELSE OrNumber(Optional(sett, "avgCycleLength"), 28)

\* mutant: the settings' cycle length is taken as it is, zero included
CycleLengthOf_ZeroKept(periods, sett) ==
  IF Len(periods) > 1
  THEN MathRoundDiv(SumSeq(CycleIntervals(periods)), Len(CycleIntervals(periods)))
  ELSE IF Optional(sett, "avgCycleLength") = Null THEN 28
       ELSE Optional(sett, "avgCycleLength")[1]

\* avgCycleLength after the history block
CycleLengthOf(periods, sett) ==
  IF Len(periods) > 1
  THEN MathRoundDiv(SumSeq(CycleIntervals(periods)), Len(CycleIntervals(periods)))
  ELSE OrNumber(Optional(sett, "avgCycleLength"), 28)

\* avgPeriodLength after the history block
PeriodLengthOf(periods, sett) ==
  IF Len(periods) > 0
  THEN MathRoundDiv(SumSeq(PeriodLengths(periods)), Len(periods))
  ELSE OrNumber(Optional(sett, "avgPeriodLength"), 5)

\* mutant: a manual date, when set, wins over the logged history
AnchorOf_ManualFirst(periods, sett) ==
  IF OrNull(Optional(sett, "lastPeriodStartManual")) # Null
  THEN Optional(sett, "lastPeriodStartManual")
  ELSE IF Len(periods) > 0 THEN periods[Len(periods)][1] ELSE Null

\* lastPeriodStart after the history block
AnchorOf(periods, sett) ==
  IF Len(periods) > 0
  THEN periods[Len(periods)][1]
  ELSE OrNull(Optional(sett, "lastPeriodStartManual"))

\* the stats returned when no valid anchor is resolvable
NoAnchorStats(avgCycleLength, avgPeriodLength) ==
  [avgCycleLength    |-> avgCycleLength,
   avgPeriodLength   |-> avgPeriodLength,
   lastPeriodStart   |-> Null,
   nextPeriodDate    |-> Null,
   ovulationDate     |-> Null,
   fertileWindow     |-> <<>>,
   currentDayOfCycle |-> Null]

\* mutant: the anchor day is counted as the first of the avgCycleLength days
NextPeriodDate_OffByOne(lastPeriodStart, avgCycleLength) ==
  formatDate(addDays(parseISO(lastPeriodStart), avgCycleLength - 1))

\* mutant: the prediction is counted from the current day, not from the anchor
NextPeriodDate_FromToday(lastPeriodStart, avgCycleLength) ==
  formatDate(addDays(today, avgCycleLength))

NextPeriodDate(lastPeriodStart, avgCycleLength) ==
  formatDate(addDays(parseISO(lastPeriodStart), avgCycleLength))

\* mutant: the ovulation is placed 13 days before the next period
OvulationDateObj_13Before(nextPeriodDate) == subDays(parseISO(nextPeriodDate), 13)

OvulationDateObj(nextPeriodDate) == subDays(parseISO(nextPeriodDate), 14)

\* mutant: the window is centred on the ovulation date (i from -2 to 2)
FertileWindow_Centred(ovulationDateObj) ==
  [k \in 1..5 |-> formatDate(addDays(ovulationDateObj, k - 3))]

\* mutant: the loop stops before i = 1 (i < 1)
FertileWindow_FourDays(ovulationDateObj) ==
  [k \in 1..4 |-> formatDate(addDays(ovulationDateObj, k - 4))]

\* for (let i = -3; i <= 1; i++) fertileWindow.push(...)
FertileWindow(ovulationDateObj) ==
  [k \in 1..5 |-> formatDate(addDays(ovulationDateObj, k - 4))]

\* mutant: the elapsed days are returned without wrapping into the cycle
CurrentDayOfCycle_NoWrap(now, lastPeriodStart, avgCycleLength) ==
  LET currentDayOfCycle == differenceInDays(now, parseISO(lastPeriodStart)) + 1
  IN  IF currentDayOfCycle > 0 THEN <<currentDayOfCycle>> ELSE Null

\* currentDayOfCycle as returned; today is startOfToday()
CurrentDayOfCycle(now, lastPeriodStart, avgCycleLength) ==
  LET currentDayOfCycle == differenceInDays(now, parseISO(lastPeriodStart)) + 1
  IN  IF currentDayOfCycle > 0
      THEN <<JsRem(currentDayOfCycle - 1, avgCycleLength) + 1>>
      ELSE Null

\* calculateCycleStats(logs, settings), evaluated on the calendar day `today`
calculateCycleStats(lg, sett, now) ==
  LET periodDays      == SortByDate(PeriodLogs(lg))
      periods         == GroupPeriods(periodDays)
      avgCycleLength  == CycleLengthOf(periods, sett)
      avgPeriodLength == PeriodLengthOf(periods, sett)
      lastPeriodStart == AnchorOf(periods, sett)
  IN  IF lastPeriodStart = Null \/ ~isValid(parseISO(lastPeriodStart))
      THEN NoAnchorStats(avgCycleLength, avgPeriodLength)
      ELSE LET nextPeriodDate   == NextPeriodDate(lastPeriodStart, avgCycleLength)
               ovulationDateObj == OvulationDateObj(nextPeriodDate)
           IN  [avgCycleLength    |-> avgCycleLength,
                avgPeriodLength   |-> avgPeriodLength,
                lastPeriodStart   |-> lastPeriodStart,
                nextPeriodDate    |-> nextPeriodDate,
                ovulationDate     |-> formatDate(ovulationDateObj),
                fertileWindow     |-> FertileWindow(ovulationDateObj),
                currentDayOfCycle |->
                  CurrentDayOfCycle(now, lastPeriodStart, avgCycleLength)]

\* mutant: the follicular test includes its bound (<= instead of <)
getCyclePhase_LateFollicular(dayOfCycle, st) ==
  LET ovulationDay == st.avgCycleLength - 14
  IN  IF dayOfCycle <= st.avgPeriodLength THEN "menstrual"
      ELSE IF dayOfCycle <= ovulationDay - 2 THEN "folicular"
      ELSE IF dayOfCycle <= ovulationDay + 1 THEN "ovulatoria"
      ELSE "lutea"

\* mutant: ovulation is placed 13 days before the next cycle
getCyclePhase_Ovulation13(dayOfCycle, st) ==
  LET ovulationDay == st.avgCycleLength - 13
  IN  IF dayOfCycle <= st.avgPeriodLength THEN "menstrual"
      ELSE IF dayOfCycle < ovulationDay - 2 THEN "folicular"
      ELSE IF dayOfCycle <= ovulationDay + 1 THEN "ovulatoria"
      ELSE "lutea"

\* getCyclePhase(dayOfCycle, stats)
getCyclePhase(dayOfCycle, st) ==
  LET ovulationDay == st.avgCycleLength - 14
  IN  IF dayOfCycle <= st.avgPeriodLength THEN "menstrual"
      ELSE IF dayOfCycle < ovulationDay - 2 THEN "folicular"
      ELSE IF dayOfCycle <= ovulationDay + 1 THEN "ovulatoria"
      ELSE "lutea"

\* mutant: isFertile compares the date with the first window entry only
getDayStatus_WindowStart(day) ==
  LET dKey == formatDate(day)
      diff == differenceInDays(day, parseISO(stats.lastPeriodStart)) + 1
      dayOfCycle ==
        IF stats.lastPeriodStart # Null
        THEN (IF diff > 0
              THEN <<JsRem(diff - 1, stats.avgCycleLength) + 1>> ELSE Null)
        ELSE Null
  IN  [dKey                    |-> dKey,
       isMenstruation          |-> dKey \in DOMAIN logs /\ logs[dKey].isPeriod,
       isPredictedMenstruation |-> stats.nextPeriodDate = dKey,
       isOvulation             |-> stats.ovulationDate = dKey,
       isFertile               |->
         stats.fertileWindow # <<>> /\ stats.fertileWindow[1] = dKey,
       dayOfCycle              |-> dayOfCycle,
       phase                   |->
         IF dayOfCycle # Null /\ dayOfCycle # <<0>>
         THEN getCyclePhase(dayOfCycle[1], stats) ELSE "null"]

\* mutant: the day of cycle is (diff % avgCycleLength) + 1
getDayStatus_NoShift(day) ==
  LET dKey == formatDate(day)
      diff == differenceInDays(day, parseISO(stats.lastPeriodStart)) + 1
      dayOfCycle ==
        IF stats.lastPeriodStart # Null
        THEN (IF diff > 0
              THEN <<JsRem(diff, stats.avgCycleLength) + 1>> ELSE Null)
        ELSE Null
  IN  [dKey                    |-> dKey,
       isMenstruation          |-> dKey \in DOMAIN logs /\ logs[dKey].isPeriod,
       isPredictedMenstruation |-> stats.nextPeriodDate = dKey,
       isOvulation             |-> stats.ovulationDate = dKey,
       isFertile               |->
         \E k \in DOMAIN stats.fertileWindow : stats.fertileWindow[k] = dKey,
       dayOfCycle              |-> dayOfCycle,
       phase                   |->
         IF dayOfCycle # Null /\ dayOfCycle # <<0>>
         THEN getCyclePhase(dayOfCycle[1], stats) ELSE "null"]

\* getDayStatus(day) of App, reading the memoised stats and the logs
getDayStatus(day) ==
  LET dKey == formatDate(day)
      diff == differenceInDays(day, parseISO(stats.lastPeriodStart)) + 1
      dayOfCycle ==
        IF stats.lastPeriodStart # Null
        THEN (IF diff > 0
              THEN <<JsRem(diff - 1, stats.avgCycleLength) + 1>> ELSE Null)
        ELSE Null
  IN  [dKey                    |-> dKey,
       isMenstruation          |-> dKey \in DOMAIN logs /\ logs[dKey].isPeriod,
       isPredictedMenstruation |-> stats.nextPeriodDate = dKey,
       isOvulation             |-> stats.ovulationDate = dKey,
       isFertile               |->
         \E k \in DOMAIN stats.fertileWindow : stats.fertileWindow[k] = dKey,
       dayOfCycle              |-> dayOfCycle,
       phase                   |->
         IF dayOfCycle # Null /\ dayOfCycle # <<0>>
         THEN getCyclePhase(dayOfCycle[1], stats) ELSE "null"]

\* currentPhase of App for a stats value: null without a current day of cycle
currentPhase(st) ==
  IF st.currentDayOfCycle = Null THEN "null"
  ELSE getCyclePhase(st.currentDayOfCycle[1], st)

(* ------------------------------------------------------------ input sets *)
\* first loggable day of the model's calendar: 2024-02-27 (a leap February)
FirstDay == parseISO(<<2024, 2, 27>>)

\* the days the user opens in the day modal
LogDays == FirstDay..(FirstDay + NumDays - 1)

\* the days on which the user saves an entry with isPeriod off
OtherDays == {FirstDay + 1}

\* the days logged in the scenarios about queued updates and backups
BatchDays == {FirstDay, FirstDay + 1}

\* the calendar day on which the app is opened, and the days it stays open
FirstToday == FirstDay + 3
Clock == {FirstToday, FirstToday + 1}

\* values typed into the cycle-length and period-length inputs
CycleInputs == {-3}
PeriodInputs == {2}

\* values of the manual last-period date input: cleared, or a day after LogDays
ManualInputs == {Null, formatDate(FirstDay + NumDays)}

\* the useState initial settings
DefaultSettings ==
  [avgCycleLength |-> <<28>>, avgPeriodLength |-> <<5>>,
   lastPeriodStartManual |-> Null]

\* settings records found in localStorage at start-up: none, or one with no
\* cycle length, a zero period length and a date that is no calendar date
StoredSettings ==
  { DefaultSettings,
    [avgCycleLength |-> Null, avgPeriodLength |-> <<0>>,
     lastPeriodStartManual |-> <<2024, 2, 30>>] }

(* ------------------------------------------------------------------ App *)
EmptyLogs == [k \in {} |-> Null]

\* parseInt(e.target.value) || fallback, on an integer typed by the user
ParseIntOr(v, fallback) == IF v = 0 THEN <<fallback>> ELSE <<v>>

\* { ...prev, [log.date]: log }
Upsert(prev, log) ==
  [k \in (DOMAIN prev) \cup {log.date} |-> IF k = log.date THEN log ELSE prev[k]]

\* { ...prev, field: value }
With(prev, field, value) ==
  [f \in (DOMAIN prev) \cup {field} |-> IF f = field THEN value ELSE prev[f]]

\* const newLogs = { ...logs }; delete newLogs[date]
Without(ls, date) == [k \in (DOMAIN ls) \ {date} |-> ls[k]]

\* mutant: the update is the object built from the rendered logs
\* (setLogs({ ...logs, [log.date]: log }))
UpsertLog_FromClosure(log) ==
  [target |-> "logs", log |-> log, value |-> Upsert(logs, log)]

\* the update handleSaveLog passes to setLogs: prev => ({ ...prev, [log.date]: log })
UpsertLog(log) == [target |-> "logs", log |-> log]

\* the update a setter gets as a plain value, as in setLogs(newLogs)
SetValue(target, value) == [target |-> target, value |-> value]

\* one queued update applied to the state it finds
ApplyUpdate(prev, update) ==
  IF "value" \in DOMAIN update THEN update.value
  ELSE Upsert(prev, update.log)

\* the queued updates of one piece of state, applied in the order queued
RECURSIVE Reduce(_, _, _)
Reduce(prev, queue, target) ==
  IF queue = <<>> THEN prev
  ELSE Reduce(IF Head(queue).target = target
              THEN ApplyUpdate(prev, Head(queue)) ELSE prev,
              Tail(queue), target)

\* mutant: the properties whose value is 0 are omitted as well
DropUndefined_Falsy(obj) ==
  [f \in {g \in DOMAIN obj : obj[g] # Null /\ obj[g] # <<0>>} |-> obj[f]]

\* JSON.stringify omits the properties whose value is undefined
DropUndefined(obj) == [f \in {g \in DOMAIN obj : obj[g] # Null} |-> obj[f]]

\* a string that JSON.parse accepts, with the value it parses to
JsonText(value) == [parses |-> TRUE, value |-> value]

\* a stored string that JSON.parse rejects with a SyntaxError
CorruptText == [parses |-> FALSE, value |-> Null]

\* JSON.stringify(logs) and JSON.stringify(settings)
StringifyLogs(lg) == JsonText(lg)
StringifySettings(sett) == JsonText(DropUndefined(sett))

\* if (!stats.nextPeriodDate) return null;
\* return differenceInDays(parseISO(stats.nextPeriodDate), startOfToday())
NextPeriodInOf(nextPeriodDate, now) ==
  IF nextPeriodDate = Null THEN Null
  ELSE <<differenceInDays(parseISO(nextPeriodDate), now)>>

\* useMemo(..., [stats.nextPeriodDate]): a render recomputes nextPeriodIn only
\* when the date string of the new stats differs from the one of the last render
MemoNextPeriodIn ==
  nextPeriodIn' = IF stats'.nextPeriodDate = stats.nextPeriodDate
                  THEN nextPeriodIn
                  ELSE NextPeriodInOf(stats'.nextPeriodDate, today)

\* useMemo(() => calculateCycleStats(logs, settings), [logs, settings]): every
\* handler installs a new logs or settings object, so the render that follows
\* it recomputes the memo, reading the clock at that moment
Render ==
  /\ pc = "running"
  /\ stats' = calculateCycleStats(logs', settings', today)
  /\ statsDay' = today
  /\ MemoNextPeriodIn
  /\ UNCHANGED <<today, pending, pc, backup>>

\* useEffect(() => localStorage.setItem(key, JSON.stringify(logs)), [logs]),
\* run after the render that installed a new logs object
PersistLogs == storage' = [storage EXCEPT !.logs = StringifyLogs(logs')]

\* the app is open and idle: start-up has loaded settings from StoredSettings
\* (the defaults when nothing is stored) and no logs, and has written the logs
Init ==
  /\ logs = EmptyLogs
  /\ settings \in StoredSettings
  /\ today = FirstToday
  /\ stats = calculateCycleStats(logs, settings, today)
  /\ statsDay = today
  /\ nextPeriodIn = NextPeriodInOf(stats.nextPeriodDate, today)
  /\ pending = <<>>
  /\ storage = [logs     |-> StringifyLogs(logs),
                settings |-> IF settings = DefaultSettings THEN Null
                             ELSE StringifySettings(settings)]
  /\ pc = "running"
  /\ backup = Null
  /\ modal = Null

handleSaveLog(log) ==
  /\ logs' = Upsert(logs, log)
  /\ modal' = Null
  /\ UNCHANGED settings
  /\ Render
  /\ PersistLogs

handleDeleteLog(date) ==
  /\ date \in DOMAIN logs
  /\ logs' = Without(logs, date)
  /\ modal' = Null
  /\ UNCHANGED settings
  /\ Render
  /\ PersistLogs

setAvgCycleLength(v) ==
  /\ settings' = With(settings, "avgCycleLength", ParseIntOr(v, 28))
  /\ UNCHANGED <<logs, storage, modal>>
  /\ Render

setAvgPeriodLength(v) ==
  /\ settings' = With(settings, "avgPeriodLength", ParseIntOr(v, 5))
  /\ UNCHANGED <<logs, storage, modal>>
  /\ Render

setLastPeriodStartManual(s) ==
  /\ settings' = With(settings, "lastPeriodStartManual", s)
  /\ UNCHANGED <<logs, storage, modal>>
  /\ Render

\* both items are removed; the logs effect then stores the new empty logs
clearData ==
  /\ logs' = EmptyLogs
  /\ settings' = [avgCycleLength |-> <<28>>, avgPeriodLength |-> <<5>>,
                  lastPeriodStartManual |-> Null]
  /\ Render
  /\ storage' = [logs |-> StringifyLogs(logs'), settings |-> Null]
  /\ UNCHANGED modal

\* the save button of the settings form: no state changes, nothing re-renders
handleSaveSettings ==
  /\ pc = "running"
  /\ storage' = [storage EXCEPT !.settings = StringifySettings(settings)]
  /\ UNCHANGED <<logs, settings, today, stats, statsDay, nextPeriodIn, pending, pc, backup, modal>>

\* midnight passes while the app stays open: nothing re-renders
Tick ==
  /\ today + 1 \in Clock
  /\ today' = today + 1
  /\ UNCHANGED <<logs, settings, stats, statsDay, nextPeriodIn, pending, storage, pc, backup, modal>>

SaveLog ==
  \E d \in LogDays, p \in BOOLEAN :
    /\ (~p => d \in OtherDays)
    /\ handleSaveLog([date |-> formatDate(d), isPeriod |-> p])

DeleteLog == \E d \in LogDays : handleDeleteLog(formatDate(d))

EditCycleLength == \E v \in CycleInputs : setAvgCycleLength(v)

EditPeriodLength == \E v \in PeriodInputs : setAvgPeriodLength(v)

EditManualStart == \E s \in ManualInputs : setLastPeriodStartManual(s)

Next ==
  \/ SaveLog
  \/ DeleteLog
  \/ EditCycleLength
  \/ EditPeriodLength
  \/ EditManualStart
  \/ clearData
  \/ Tick

Spec == Init /\ [][Next]_vars

(* ------------------------------------------------ the diary on its own *)
\* entries are saved and deleted while the settings and the day stay as they
\* were when the app was opened
DiaryNext ==
  \/ SaveLog
  \/ DeleteLog

DiarySpec == Init /\ [][DiaryNext]_vars

(* ------------------------------------------ the settings form on its own *)
\* a user without logged periods who sets the cycle by hand: any cycle length
\* in 1..MaxCycle, any period length in 1..MaxPeriod, and a manual last-period
\* date among the PhaseSpan days ending today
PhaseInit ==
  /\ logs = EmptyLogs
  /\ settings = [DefaultSettings EXCEPT
                   !.lastPeriodStartManual = formatDate(FirstToday)]
  /\ today = FirstToday
  /\ stats = calculateCycleStats(logs, settings, today)
  /\ statsDay = today
  /\ nextPeriodIn = NextPeriodInOf(stats.nextPeriodDate, today)
  /\ pending = <<>>
  /\ storage = [logs |-> StringifyLogs(logs), settings |-> Null]
  /\ pc = "running"
  /\ backup = Null
  /\ modal = Null

TypeCycleLength == \E v \in 1..MaxCycle : setAvgCycleLength(v)

TypePeriodLength == \E v \in 1..MaxPeriod : setAvgPeriodLength(v)

PickManualStart ==
  \E k \in 0..(PhaseSpan - 1) :
    setLastPeriodStartManual(formatDate(FirstToday - k))

PhaseNext ==
  \/ TypeCycleLength
  \/ TypePeriodLength
  \/ PickManualStart

PhaseSpec == PhaseInit /\ [][PhaseNext]_vars

(* ------------------------------------------- start-up, saving, reloading *)
\* the log entry used across reloads
FirstLog == [date |-> formatDate(FirstDay), isPeriod |-> TRUE]

\* what the browser may hold under the two keys when the app is opened
StoredLogsItems ==
  {Null, CorruptText, StringifyLogs(EmptyLogs),
   StringifyLogs(Upsert(EmptyLogs, FirstLog))}

StoredSettingsItems ==
  {Null, CorruptText} \cup {StringifySettings(sett) : sett \in StoredSettings}

\* mutant: the stored string is parsed without the try / catch
LoadedUpdates_Unchecked(item, target) ==
  IF item = Null THEN <<>> ELSE <<SetValue(target, item.value)>>

\* if (saved) { try { set(JSON.parse(saved)) } catch (e) { console.error(e) } }
LoadedUpdates(item, target) ==
  IF item = Null THEN <<>>
  ELSE IF item.parses THEN <<SetValue(target, item.value)>>
  ELSE <<>>

\* the component mounts with the useState initial values
Mount ==
  /\ logs = EmptyLogs
  /\ settings = DefaultSettings
  /\ today = FirstToday
  /\ stats = calculateCycleStats(logs, settings, today)
  /\ statsDay = today
  /\ nextPeriodIn = NextPeriodInOf(stats.nextPeriodDate, today)
  /\ pending = <<>>
  /\ pc = "mount"
  /\ backup = Null
  /\ modal = Null

LifeInit ==
  /\ Mount
  /\ storage \in [logs : StoredLogsItems, settings : StoredSettingsItems]

\* the mount effect that reads both items
LoadEffect ==
  /\ pc = "mount"
  /\ pending' = LoadedUpdates(storage.logs, "logs")
                  \o LoadedUpdates(storage.settings, "settings")
  /\ pc' = "loaded"
  /\ UNCHANGED <<logs, settings, today, stats, statsDay, nextPeriodIn, storage, backup, modal>>

\* the logs effect of the first render: it stores the initial, empty logs
FirstPersistEffect ==
  /\ pc = "loaded"
  /\ storage' = [storage EXCEPT !.logs = StringifyLogs(logs)]
  /\ pc' = "persisted"
  /\ UNCHANGED <<logs, settings, today, stats, statsDay, nextPeriodIn, pending, backup, modal>>

\* the render that takes the loaded values; the logs effect runs again if
\* logs were loaded
LoadedRender ==
  /\ pc = "persisted"
  /\ logs' = Reduce(logs, pending, "logs")
  /\ settings' = Reduce(settings, pending, "settings")
  /\ pending' = <<>>
  /\ stats' = calculateCycleStats(logs', settings', today)
  /\ statsDay' = today
  /\ MemoNextPeriodIn
  /\ storage' = IF \E i \in 1..Len(pending) : pending[i].target = "logs"
                THEN [storage EXCEPT !.logs = StringifyLogs(logs')]
                ELSE storage
  /\ pc' = "running"
  /\ UNCHANGED <<today, backup, modal>>

\* the page is closed and opened again: the state is gone, the storage stays
Reload ==
  /\ pc = "running"
  /\ logs' = EmptyLogs
  /\ settings' = DefaultSettings
  /\ stats' = calculateCycleStats(logs', settings', today)
  /\ statsDay' = today
  /\ nextPeriodIn' = NextPeriodInOf(stats'.nextPeriodDate, today)
  /\ pending' = <<>>
  /\ pc' = "mount"
  /\ UNCHANGED <<today, storage, backup, modal>>

SaveFirstLog == \E p \in BOOLEAN : handleSaveLog([FirstLog EXCEPT !.isPeriod = p])

DeleteFirstLog == handleDeleteLog(FirstLog.date)

LifeNext ==
  \/ LoadEffect
  \/ FirstPersistEffect
  \/ LoadedRender
  \/ SaveFirstLog
  \/ DeleteFirstLog
  \/ EditCycleLength
  \/ EditPeriodLength
  \/ EditManualStart
  \/ handleSaveSettings
  \/ clearData
  \/ Reload

LifeSpec == LifeInit /\ [][LifeNext]_vars

(* ------------------------------------------------- backup (App 5.0) *)
\* App 5.0 stores the settings after every render that installed new ones
PersistSettings ==
  storage' = [storage EXCEPT !.settings = StringifySettings(settings')]

BackupInit ==
  /\ logs = EmptyLogs
  /\ settings \in StoredSettings
  /\ today = FirstToday
  /\ stats = calculateCycleStats(logs, settings, today)
  /\ statsDay = today
  /\ nextPeriodIn = NextPeriodInOf(stats.nextPeriodDate, today)
  /\ pending = <<>>
  /\ storage = [logs     |-> StringifyLogs(logs),
                settings |-> StringifySettings(settings)]
  /\ pc = "running"
  /\ backup = Null
  /\ modal = Null

\* JSON.stringify({ logs, settings, version: '5.0', exportedAt }, null, 2)
exportBackup ==
  /\ pc = "running"
  /\ backup' = JsonText([logs       |-> logs,
                         settings   |-> DropUndefined(settings),
                         version    |-> "5.0",
                         exportedAt |-> today])
  /\ UNCHANGED <<logs, settings, today, stats, statsDay, nextPeriodIn, pending, storage, pc,
                 modal>>

\* the user picks the exported file; FileReader reads it in the background
importBackup ==
  /\ pc = "running"
  /\ backup # Null
  /\ pc' = "reading"
  /\ UNCHANGED <<logs, settings, today, stats, statsDay, nextPeriodIn, pending, storage,
                 backup, modal>>

\* reader.onload: if (data.logs) setLogs(data.logs);
\* if (data.settings) setSettings(data.settings); then the render and effects
onload ==
  /\ pc = "reading"
  /\ IF backup.parses
     THEN LET data == backup.value
          IN  /\ logs' = IF "logs" \in DOMAIN data THEN data.logs ELSE logs
              /\ settings' = IF "settings" \in DOMAIN data
                             THEN data.settings ELSE settings
     ELSE UNCHANGED <<logs, settings>>
  /\ stats' = calculateCycleStats(logs', settings', today)
  /\ statsDay' = today
  /\ MemoNextPeriodIn
  /\ storage' = [logs     |-> StringifyLogs(logs'),
                 settings |-> StringifySettings(settings')]
  /\ pc' = "running"
  /\ UNCHANGED <<today, pending, backup, modal>>

BackupSaveLog ==
  \E d \in BatchDays, p \in BOOLEAN :
    handleSaveLog([date |-> formatDate(d), isPeriod |-> p])

\* the cycle-length input of App 5.0, whose settings effect stores the result
BackupEditCycleLength ==
  \E v \in CycleInputs :
    /\ settings' = With(settings, "avgCycleLength", ParseIntOr(v, 28))
    /\ UNCHANGED <<logs, modal>>
    /\ Render
    /\ PersistSettings

BackupNext ==
  \/ exportBackup
  \/ importBackup
  \/ onload
  \/ BackupSaveLog
  \/ BackupEditCycleLength

BackupSpec == BackupInit /\ [][BackupNext]_vars

(* --------------------------------- several handlers before one render *)
BatchInit ==
  /\ logs = EmptyLogs
  /\ settings = DefaultSettings
  /\ today = FirstToday
  /\ stats = calculateCycleStats(logs, settings, today)
  /\ statsDay = today
  /\ nextPeriodIn = NextPeriodInOf(stats.nextPeriodDate, today)
  /\ pending = <<>>
  /\ storage = [logs |-> StringifyLogs(logs), settings |-> Null]
  /\ pc = "running"
  /\ backup = Null
  /\ modal = Null

\* a setter called by a handler: the update waits for the next render
setLogs(update) ==
  /\ Len(pending) < MaxPending
  /\ pending' = Append(pending, update)
  /\ UNCHANGED <<logs, settings, today, stats, statsDay, nextPeriodIn, storage, pc, backup, modal>>

\* handleSaveLog called while earlier updates are still queued
QueueSaveLog ==
  \E d \in BatchDays, p \in BOOLEAN :
    setLogs(UpsertLog([date |-> formatDate(d), isPeriod |-> p]))

\* handleDeleteLog called while earlier updates are still queued: newLogs is
\* built from the logs of the last render
QueueDeleteLog ==
  \E date \in DOMAIN logs : setLogs(SetValue("logs", Without(logs, date)))

\* the render that takes the queued updates, and the logs effect after it
RenderPending ==
  /\ pending # <<>>
  /\ logs' = Reduce(logs, pending, "logs")
  /\ pending' = <<>>
  /\ stats' = calculateCycleStats(logs', settings, today)
  /\ statsDay' = today
  /\ MemoNextPeriodIn
  /\ PersistLogs
  /\ UNCHANGED <<settings, today, pc, backup, modal>>

BatchNext ==
  \/ QueueSaveLog
  \/ QueueDeleteLog
  \/ RenderPending

BatchSpec == BatchInit /\ [][BatchNext]_vars

(* ------------------------------------------------- the day-entry modal *)
\* the day whose entry is opened in the modal
ModalDay == formatDate(FirstDay)

\* existingLog?.field ?? fallback, existingLog being logs[date]
FieldOr(date, field, fallback) ==
  IF date \in DOMAIN logs /\ field \in DOMAIN logs[date]
  THEN logs[date][field] ELSE fallback

\* the app opens with no entry, or with an entry saved before the counters
\* existed
ModalInit ==
  /\ logs \in {EmptyLogs, Upsert(EmptyLogs, FirstLog)}
  /\ settings = DefaultSettings
  /\ today = FirstToday
  /\ stats = calculateCycleStats(logs, settings, today)
  /\ statsDay = today
  /\ nextPeriodIn = NextPeriodInOf(stats.nextPeriodDate, today)
  /\ pending = <<>>
  /\ storage = [logs |-> StringifyLogs(logs), settings |-> Null]
  /\ pc = "running"
  /\ backup = Null
  /\ modal = Null

\* a step of the open modal changes nothing outside it
ModalOnly ==
  UNCHANGED <<logs, settings, today, stats, statsDay, nextPeriodIn, pending,
              storage, pc, backup>>

\* the day is clicked and the entry button of the quick view opens the modal:
\* DayModal mounts with the useState initial values
openModal ==
  /\ modal = Null
  /\ modal' = [date     |-> ModalDay,
               isPeriod |-> FieldOr(ModalDay, "isPeriod", FALSE),
               water    |-> FieldOr(ModalDay, "waterIntake", 0),
               sleep    |-> FieldOr(ModalDay, "sleepHours", 8)]
  /\ ModalOnly

\* onClick={() => setIsPeriod(!isPeriod)}
toggleIsPeriod ==
  /\ modal # Null
  /\ modal' = [modal EXCEPT !.isPeriod = ~modal.isPeriod]
  /\ ModalOnly

\* mutant: the decrement has no floor
Decrement_NoFloor(n) == n - 1

\* Math.max(0, n - 1)
Decrement(n) == IF n - 1 > 0 THEN n - 1 ELSE 0

\* the - and + buttons of the water counter
decrementWater ==
  /\ modal # Null
  /\ modal' = [modal EXCEPT !.water = Decrement(modal.water)]
  /\ ModalOnly

incrementWater ==
  /\ modal # Null
  /\ modal.water < MaxWater
  /\ modal' = [modal EXCEPT !.water = modal.water + 1]
  /\ ModalOnly

\* the - and + buttons of the sleep counter
decrementSleep ==
  /\ modal # Null
  /\ modal' = [modal EXCEPT !.sleep = Decrement(modal.sleep)]
  /\ ModalOnly

incrementSleep ==
  /\ modal # Null
  /\ modal.sleep < MaxSleep
  /\ modal' = [modal EXCEPT !.sleep = modal.sleep + 1]
  /\ ModalOnly

\* the DayLog the save button hands to onSave
ModalLog ==
  [date        |-> modal.date,
   isPeriod    |-> modal.isPeriod,
   waterIntake |-> modal.water,
   sleepHours  |-> modal.sleep]

\* the save button: onSave is handleSaveLog
onSave ==
  /\ modal # Null
  /\ handleSaveLog(ModalLog)

\* the delete button, shown when the day has an entry: onDelete is
\* handleDeleteLog
onDelete ==
  /\ modal # Null
  /\ handleDeleteLog(modal.date)

\* onClose={() => setIsModalOpen(false)}
onClose ==
  /\ modal # Null
  /\ modal' = Null
  /\ ModalOnly

ModalNext ==
  \/ openModal
  \/ toggleIsPeriod
  \/ decrementWater
  \/ incrementWater
  \/ decrementSleep
  \/ incrementSleep
  \/ onSave
  \/ onDelete
  \/ onClose

ModalSpec == ModalInit /\ [][ModalNext]_vars

(* ------------------------------------------------- vocabulary of the claims *)
\* the logged period days as day numbers, read off the log collection directly
PeriodDayNumbers == {parseISO(k) : k \in {kk \in DOMAIN logs : logs[kk].isPeriod}}

\* the first day of every maximal run of consecutive period days
RunStarts == {d \in PeriodDayNumbers : (d - 1) \notin PeriodDayNumbers}

SetMax(S) == CHOOSE x \in S : \A y \in S : y <= x
SetMin(S) == CHOOSE x \in S : \A y \in S : x <= y

\* the value a settings field provides, or the default when it provides none
\* (the field is missing or zero)
Provided(x, default) == IF x = Null \/ x = <<0>> THEN default ELSE x[1]

\* the groups the engine builds from the current logs
CurrentPeriods == GroupPeriods(SortByDate(PeriodLogs(logs)))

\* the stats the engine returns for given period days (as date strings),
\* settings and evaluation day
StatsOfDays(days, sett, now) ==
  calculateCycleStats([k \in days |-> [date |-> k, isPeriod |-> TRUE]], sett, now)

(* ----------------------------------------------------------------- claims *)
\* C1: with no log marked as period and no manual last-period date, the stats
\* have lastPeriodStart, nextPeriodDate, ovulationDate and currentDayOfCycle
\* null and an empty fertileWindow, and the two lengths are the ones the
\* settings provide (28 and 5 where the settings provide none).
C1_NoData ==
  ( /\ \A k \in DOMAIN logs : ~logs[k].isPeriod
    /\ settings.lastPeriodStartManual = Null )
  => /\ stats.lastPeriodStart = Null
     /\ stats.nextPeriodDate = Null
     /\ stats.ovulationDate = Null
     /\ stats.fertileWindow = <<>>
     /\ stats.currentDayOfCycle = Null
     /\ stats.avgCycleLength = Provided(settings.avgCycleLength, 28)
     /\ stats.avgPeriodLength = Provided(settings.avgPeriodLength, 5)

\* C1 witness: only non-period entries are logged, no manual date, and the
\* settings override both lengths
C1_Witness ==
  /\ DOMAIN logs # {}
  /\ \A k \in DOMAIN logs : ~logs[k].isPeriod
  /\ settings.lastPeriodStartManual = Null
  /\ settings.avgCycleLength = <<-3>>
  /\ settings.avgPeriodLength = <<2>>
  /\ stats.avgCycleLength = -3
  /\ stats.lastPeriodStart = Null

\* C2 as stated: a call made now returns what the memoised earlier call on the
\* same logs and settings returned, in every field.
C2_SameWhenever == calculateCycleStats(logs, settings, today) = stats

\* C2 amended: two calls on the same logs and settings agree in every field
\* but currentDayOfCycle whenever they are made, and in currentDayOfCycle too
\* when they are made on the same calendar day.
C2_SameButToday ==
  LET fresh == calculateCycleStats(logs, settings, today)
  IN  /\ fresh.avgCycleLength = stats.avgCycleLength
      /\ fresh.avgPeriodLength = stats.avgPeriodLength
      /\ fresh.lastPeriodStart = stats.lastPeriodStart
      /\ fresh.nextPeriodDate = stats.nextPeriodDate
      /\ fresh.ovulationDate = stats.ovulationDate
      /\ fresh.fertileWindow = stats.fertileWindow
      /\ (statsDay = today => fresh.currentDayOfCycle = stats.currentDayOfCycle)

\* C2 witness: midnight has passed since the memo was computed, and the day of
\* cycle a fresh call returns differs from the memoised one
C2_Witness ==
  /\ statsDay # today
  /\ stats.lastPeriodStart # Null
  /\ calculateCycleStats(logs, settings, today).currentDayOfCycle
       # stats.currentDayOfCycle

\* C3: the groups are exactly the maximal runs of consecutive period days, in
\* ascending order: one group per run start, each group the dates from its run
\* start up to the day before the next gap; the days d, d+1, d+3 give two
\* groups of lengths 2 and 1.
C3_MaximalRuns ==
  LET periods == CurrentPeriods
  IN  /\ Len(periods) = Cardinality(RunStarts)
      /\ \A g \in DOMAIN periods :
           LET first == parseISO(periods[g][1])
               n     == Len(periods[g])
           IN  /\ n >= 1
               /\ first \in RunStarts
               /\ \A j \in 1..n : parseISO(periods[g][j]) = first + (j - 1)
               /\ (first + n) \notin PeriodDayNumbers
               /\ g > 1 => parseISO(periods[g - 1][1]) < first
      /\ GroupPeriods(<<<<2024, 3, 1>>, <<2024, 3, 2>>, <<2024, 3, 4>>>>)
           = << <<<<2024, 3, 1>>, <<2024, 3, 2>>>>, <<<<2024, 3, 4>>>> >>

\* C3 witness: exactly the days d, d+1 and d+3 are period days, across the end
\* of February, and they form two groups of 2 and 1 days
C3_Witness ==
  /\ PeriodDayNumbers = {FirstDay + 1, FirstDay + 2, FirstDay + 4}
  /\ Len(CurrentPeriods) = 2
  /\ Len(CurrentPeriods[1]) = 2
  /\ Len(CurrentPeriods[2]) = 1

\* the period days of the grouping example: 2024-01-01..03 and 2024-01-29..02-02
ExampleDays ==
  { <<2024, 1, 1>>, <<2024, 1, 2>>, <<2024, 1, 3>>, <<2024, 1, 29>>,
    <<2024, 1, 30>>, <<2024, 1, 31>>, <<2024, 2, 1>>, <<2024, 2, 2>> }

\* r is num/den rounded to the nearest integer, halves rounded up
IsRoundHalfUp(r, num, den) ==
  /\ 2 * r * den - den <= 2 * num
  /\ 2 * num < 2 * r * den + den

\* C4: with at least 2 groups avgCycleLength is the mean of the differences
\* between successive group starts (their sum is last start - first start),
\* rounded to the nearest integer; with fewer it is the settings' cycle length
\* (28 where the settings provide none).  Starts 2024-01-01 and 2024-01-29
\* give 28.
C4_CycleLength ==
  LET n == Cardinality(RunStarts)
  IN  /\ n >= 2 =>
           IsRoundHalfUp(stats.avgCycleLength,
                         SetMax(RunStarts) - SetMin(RunStarts), n - 1)
      /\ n < 2 => stats.avgCycleLength = Provided(settings.avgCycleLength, 28)
      /\ StatsOfDays(ExampleDays, DefaultSettings, FirstToday).avgCycleLength = 28

\* C4 witness: three groups starting on days 0, 2 and 5, intervals 2 and 3,
\* mean 2.5, reported as 3
C4_Witness ==
  /\ RunStarts = {FirstDay, FirstDay + 2, FirstDay + 5}
  /\ stats.avgCycleLength = 3

\* C5: with at least 1 group avgPeriodLength is the number of period days
\* divided by the number of groups, rounded to the nearest integer with halves
\* up, whatever the settings say; with no group it is the settings' period
\* length (5 where the settings provide none).  Groups of 3 and 5 days give 4.
C5_PeriodLength ==
  LET n == Cardinality(RunStarts)
  IN  /\ n >= 1 =>
           IsRoundHalfUp(stats.avgPeriodLength, Cardinality(PeriodDayNumbers), n)
      /\ n = 0 => stats.avgPeriodLength = Provided(settings.avgPeriodLength, 5)
      /\ StatsOfDays(ExampleDays, DefaultSettings, FirstToday).avgPeriodLength = 4

\* C5 witness: groups of 2 days and 1 day, mean 1.5, reported as 2 although
\* the settings say 5
C5_Witness ==
  /\ PeriodDayNumbers = {FirstDay, FirstDay + 1, FirstDay + 3}
  /\ settings.avgPeriodLength = <<5>>
  /\ stats.avgPeriodLength = 2

\* the anchor the logs determine: the start of the latest run of period days
LatestRunStart == formatDate(SetMax(RunStarts))

\* C6 as stated: lastPeriodStart is the first date of the most recent group if
\* a period day is logged, and otherwise settings.lastPeriodStartManual (null
\* when that is unset).
C6_AnchorAsStated ==
  /\ PeriodDayNumbers # {} => stats.lastPeriodStart = LatestRunStart
  /\ PeriodDayNumbers = {} =>
       stats.lastPeriodStart = settings.lastPeriodStartManual

\* C6 amended: lastPeriodStart is the first date of the most recent group if a
\* period day is logged (the manual date is then ignored); otherwise it is
\* settings.lastPeriodStartManual when that is a valid calendar date, and null
\* when it is unset or not a valid calendar date.
C6_Anchor ==
  /\ PeriodDayNumbers # {} => stats.lastPeriodStart = LatestRunStart
  /\ PeriodDayNumbers = {} =>
       stats.lastPeriodStart =
         (IF IsCalendarDate(settings.lastPeriodStartManual)
          THEN settings.lastPeriodStartManual ELSE Null)

\* C6 witness: period days are logged and the manual date is later than all of
\* them, yet the anchor is the start of the latest group
C6_Witness ==
  /\ Cardinality(RunStarts) = 2
  /\ IsCalendarDate(settings.lastPeriodStartManual)
  /\ parseISO(settings.lastPeriodStartManual) > SetMax(PeriodDayNumbers)
  /\ stats.lastPeriodStart = LatestRunStart
  /\ stats.lastPeriodStart # settings.lastPeriodStartManual

\* C6 second case reached: no period day, the stored manual date is no calendar
\* date, and the anchor is null
C6_InvalidManualReached ==
  /\ PeriodDayNumbers = {}
  /\ settings.lastPeriodStartManual # Null
  /\ ~IsCalendarDate(settings.lastPeriodStartManual)
  /\ stats.lastPeriodStart = Null

\* C7: with an anchor, nextPeriodDate is avgCycleLength days after
\* lastPeriodStart and ovulationDate is 14 days before nextPeriodDate, for any
\* avgCycleLength.
C7_Predictions ==
  stats.lastPeriodStart # Null =>
    /\ parseISO(stats.nextPeriodDate)
         = parseISO(stats.lastPeriodStart) + stats.avgCycleLength
    /\ parseISO(stats.ovulationDate) = parseISO(stats.nextPeriodDate) - 14
    /\ IsCalendarDate(stats.nextPeriodDate)
    /\ IsCalendarDate(stats.ovulationDate)

\* C7 witness: an anchor on 2024-03-02 with the default cycle of 28 days:
\* next period 2024-03-30, ovulation 2024-03-16
C7_Witness ==
  /\ stats.lastPeriodStart = <<2024, 3, 2>>
  /\ stats.avgCycleLength = 28
  /\ stats.nextPeriodDate = <<2024, 3, 30>>
  /\ stats.ovulationDate = <<2024, 3, 16>>

\* C8: whenever ovulationDate is set, fertileWindow is the 5 consecutive dates
\* from ovulationDate - 3 to ovulationDate + 1 in ascending order, so
\* ovulationDate is its 4th entry.
C8_FertileWindow ==
  /\ stats.ovulationDate # Null =>
       /\ Len(stats.fertileWindow) = 5
       /\ \A k \in 1..5 :
            /\ IsCalendarDate(stats.fertileWindow[k])
            /\ parseISO(stats.fertileWindow[k])
                 = parseISO(stats.ovulationDate) + (k - 4)
       /\ stats.fertileWindow[4] = stats.ovulationDate
  /\ FertileWindow(parseISO(<<2024, 3, 2>>))
       = << <<2024, 2, 28>>, <<2024, 2, 29>>, <<2024, 3, 1>>,
            <<2024, 3, 2>>, <<2024, 3, 3>> >>

\* C8 witness: ovulation predicted for 2024-03-12, window 2024-03-09..03-13
C8_Witness ==
  /\ stats.ovulationDate = <<2024, 3, 12>>
  /\ stats.fertileWindow[1] = <<2024, 3, 9>>
  /\ stats.fertileWindow[5] = <<2024, 3, 13>>

\* r is in [1, m] and congruent to x + 1 modulo m
IsWrapped(r, x, m) ==
  /\ r \in 1..m
  /\ \E q \in 0..x : x = q * m + (r - 1)

\* C9: with an anchor and diff = (day of the call - lastPeriodStart) + 1,
\* currentDayOfCycle is null when diff <= 0 and otherwise
\* ((diff - 1) mod avgCycleLength) + 1, which lies in [1, avgCycleLength] and
\* is 1 on the anchor date.
C9_CurrentDay ==
  stats.lastPeriodStart # Null =>
    LET diff == (statsDay - parseISO(stats.lastPeriodStart)) + 1
    IN  /\ diff <= 0 => stats.currentDayOfCycle = Null
        /\ diff > 0 =>
             /\ stats.currentDayOfCycle # Null
             /\ IsWrapped(stats.currentDayOfCycle[1], diff - 1,
                          stats.avgCycleLength)
        /\ diff = 1 => stats.currentDayOfCycle = <<1>>

\* the days the calendar grid shows around the loggable days
GridDays == (FirstDay - 3)..(FirstDay + NumDays + 3)

\* C10: with an anchor, getDayStatus gives a date on or after lastPeriodStart
\* the day of cycle ((date - lastPeriodStart) mod avgCycleLength) + 1, so the
\* date avgCycleLength days after the anchor gets 1; a date before the anchor,
\* and every date when there is no anchor, gets null.
C10_Resolver ==
  LET anchor == parseISO(stats.lastPeriodStart)
  IN  /\ stats.lastPeriodStart = Null =>
           \A day \in GridDays : getDayStatus(day).dayOfCycle = Null
      /\ stats.lastPeriodStart # Null =>
           /\ \A day \in GridDays :
                IF day >= anchor
                THEN /\ getDayStatus(day).dayOfCycle # Null
                     /\ IsWrapped(getDayStatus(day).dayOfCycle[1], day - anchor,
                                  stats.avgCycleLength)
                ELSE getDayStatus(day).dayOfCycle = Null
           /\ getDayStatus(anchor + stats.avgCycleLength).dayOfCycle = <<1>>

PhaseDays == 1..(MaxCycle + MaxPeriod)

\* C12: getCyclePhase is total: for every positive dayOfCycle and every stats
\* with avgCycleLength >= 1 it returns exactly one of the four tags, the one of
\* the first matching rule: dayOfCycle <= avgPeriodLength menstrual; else,
\* with ovulationDay = avgCycleLength - 14, dayOfCycle < ovulationDay - 2
\* follicular; else dayOfCycle <= ovulationDay + 1 ovulatory; else luteal.
C12_Total ==
  stats.avgCycleLength >= 1 =>
    \A d \in PhaseDays :
      LET tag          == getCyclePhase(d, stats)
          p            == stats.avgPeriodLength
          ovulationDay == stats.avgCycleLength - 14
      IN  /\ tag \in {"menstrual", "folicular", "ovulatoria", "lutea"}
          /\ tag = "menstrual" <=> d <= p
          /\ tag = "folicular" <=> d > p /\ d < ovulationDay - 2
          /\ tag = "ovulatoria" <=>
                d > p /\ d >= ovulationDay - 2 /\ d <= ovulationDay + 1
          /\ tag = "lutea" <=> d > p /\ d > ovulationDay + 1

\* C12 witness: a 29-day cycle with 3-day periods on an ovulatory day, where
\* all four tags occur
C12_Witness ==
  /\ stats.avgCycleLength = 29
  /\ stats.avgPeriodLength = 3
  /\ currentPhase(stats) = "ovulatoria"
  /\ {getCyclePhase(d, stats) : d \in PhaseDays}
       = {"menstrual", "folicular", "ovulatoria", "lutea"}

\* C13 as stated: with avgPeriodLength = 5 and avgCycleLength = 28, day 5 is
\* menstrual, day 6 follicular, day 12 follicular, day 13 ovulatory, day 15
\* ovulatory and day 16 luteal.
C13_AsStated ==
  (stats.avgPeriodLength = 5 /\ stats.avgCycleLength = 28) =>
    /\ getCyclePhase(5, stats) = "menstrual"
    /\ getCyclePhase(6, stats) = "folicular"
    /\ getCyclePhase(12, stats) = "folicular"
    /\ getCyclePhase(13, stats) = "ovulatoria"
    /\ getCyclePhase(15, stats) = "ovulatoria"
    /\ getCyclePhase(16, stats) = "lutea"

\* C13: with avgPeriodLength = 5 and avgCycleLength = 28 (ovulationDay = 14),
\* day 5 is menstrual, days 6 and 11 are follicular, days 12, 13 and 15 are
\* ovulatory and day 16 is luteal.
C13_Boundaries ==
  (stats.avgPeriodLength = 5 /\ stats.avgCycleLength = 28) =>
    /\ getCyclePhase(5, stats) = "menstrual"
    /\ getCyclePhase(6, stats) = "folicular"
    /\ getCyclePhase(11, stats) = "folicular"
    /\ getCyclePhase(12, stats) = "ovulatoria"
    /\ getCyclePhase(13, stats) = "ovulatoria"
    /\ getCyclePhase(15, stats) = "ovulatoria"
    /\ getCyclePhase(16, stats) = "lutea"

\* C13 witness: today is day 12 of a 28-day cycle with 5-day periods and the
\* today summary shows the ovulatory phase
C13_Witness ==
  /\ stats.avgPeriodLength = 5
  /\ stats.avgCycleLength = 28
  /\ stats.currentDayOfCycle = <<12>>
  /\ currentPhase(stats) = "ovulatoria"

\* the string names a day of the calendar: formatting that day gives it back
NamesADay(s) ==
  /\ Len(s) = 3
  /\ s[1] \in Years
  /\ s[2] \in 1..12
  /\ s[3] >= 1
  /\ formatDate(DaysBeforeYear(s[1]) + DaysBeforeMonth(s[1], s[2]) + s[3] - 1)
       = s

\* C14: when no period is logged and settings.lastPeriodStartManual is set but
\* is not a valid calendar date, calculateCycleStats returns what it returns
\* with no anchor: lastPeriodStart, nextPeriodDate, ovulationDate and
\* currentDayOfCycle null, fertileWindow empty, and the avgCycleLength and
\* avgPeriodLength it computed; no error is raised.
C14_InvalidAnchor ==
  (/\ PeriodDayNumbers = {}
   /\ settings.lastPeriodStartManual # Null
   /\ ~NamesADay(settings.lastPeriodStartManual)) =>
    /\ stats.lastPeriodStart = Null
    /\ stats.nextPeriodDate = Null
    /\ stats.ovulationDate = Null
    /\ stats.currentDayOfCycle = Null
    /\ stats.fertileWindow = <<>>
    /\ stats.avgCycleLength = Provided(settings.avgCycleLength, 28)
    /\ stats.avgPeriodLength = Provided(settings.avgPeriodLength, 5)
    /\ stats = calculateCycleStats(
                 logs, [settings EXCEPT !.lastPeriodStartManual = Null],
                 statsDay)

\* C14 witness: the stored manual date is 2024-02-30, some day is logged
\* without a period and the cycle length has been edited
C14_Witness ==
  /\ settings.lastPeriodStartManual = <<2024, 2, 30>>
  /\ PeriodDayNumbers = {}
  /\ logs # EmptyLogs
  /\ settings.avgCycleLength = <<-3>>
  /\ stats.avgCycleLength = -3
  /\ stats.avgPeriodLength = 5
  /\ stats.nextPeriodDate = Null

\* the days the resolver is asked about: the grid around the loggable days,
\* the days around the fertile window and the days around the predicted period
ResolvedDays ==
  GridDays \cup
    (IF stats.nextPeriodDate = Null THEN {}
     ELSE ((parseISO(stats.ovulationDate) - 4)
             ..(parseISO(stats.ovulationDate) + 2))
          \cup ((parseISO(stats.nextPeriodDate) - 1)
                  ..(parseISO(stats.nextPeriodDate) + 1)))

\* C15: for every date, getDayStatus sets isPredictedPeriod iff the date is
\* stats.nextPeriodDate, isOvulation iff the date is stats.ovulationDate and
\* isFertile iff the date is a member of stats.fertileWindow; with null
\* predictions all three are false for every date, and isOvulation implies
\* isFertile.
C15_Flags ==
  \A day \in ResolvedDays :
    LET status == getDayStatus(day)
    IN  /\ status.isPredictedMenstruation <=>
             /\ stats.nextPeriodDate # Null
             /\ day = parseISO(stats.nextPeriodDate)
        /\ status.isOvulation <=>
             /\ stats.ovulationDate # Null
             /\ day = parseISO(stats.ovulationDate)
        /\ status.isFertile <=>
             \E k \in 1..Len(stats.fertileWindow) :
               day = parseISO(stats.fertileWindow[k])
        /\ stats.nextPeriodDate = Null =>
             /\ ~status.isPredictedMenstruation
             /\ ~status.isOvulation
             /\ ~status.isFertile
        /\ status.isOvulation => status.isFertile

\* C15 witness: predictions exist; the predicted day, the ovulation day and the
\* last fertile day carry their flags and the day after the window carries none
C15_Witness ==
  /\ stats.nextPeriodDate # Null
  /\ getDayStatus(parseISO(stats.nextPeriodDate)).isPredictedMenstruation
  /\ getDayStatus(parseISO(stats.ovulationDate)).isOvulation
  /\ getDayStatus(parseISO(stats.ovulationDate) + 1).isFertile
  /\ ~getDayStatus(parseISO(stats.ovulationDate) + 1).isOvulation
  /\ ~getDayStatus(parseISO(stats.ovulationDate) + 2).isFertile

\* settings as the engine may receive them: undefined, and an object with the
\* current manual date whose cycle length is zero and whose period length is
\* missing
MalformedSettings ==
  { Null,
    [avgCycleLength |-> <<0>>,
     lastPeriodStartManual |-> settings.lastPeriodStartManual] }

\* the record has every field of CycleStats with a value of its type
IsCompleteStats(st) ==
  /\ DOMAIN st = {"avgCycleLength", "avgPeriodLength", "lastPeriodStart",
                  "nextPeriodDate", "ovulationDate", "fertileWindow",
                  "currentDayOfCycle"}
  /\ st.avgCycleLength \in Int
  /\ st.avgPeriodLength \in Int
  /\ \/ /\ st.lastPeriodStart = Null
        /\ st.nextPeriodDate = Null
        /\ st.ovulationDate = Null
        /\ st.fertileWindow = <<>>
        /\ st.currentDayOfCycle = Null
     \/ /\ NamesADay(st.lastPeriodStart)
        /\ NamesADay(st.nextPeriodDate)
        /\ NamesADay(st.ovulationDate)
        /\ Len(st.fertileWindow) = 5
        /\ \A k \in 1..5 : NamesADay(st.fertileWindow[k])
        /\ st.currentDayOfCycle = Null \/ st.currentDayOfCycle[1] \in Int

\* C18: missing or malformed settings never make calculateCycleStats fail:
\* with settings undefined, or avgCycleLength / avgPeriodLength missing or
\* zero, it computes with cycle length 28 and period length 5 and returns a
\* complete CycleStats, for every logs collection.
C18_Defaults ==
  \A sett \in MalformedSettings :
    LET st == calculateCycleStats(logs, sett, today)
    IN  /\ IsCompleteStats(st)
        /\ Cardinality(RunStarts) < 2 => st.avgCycleLength = 28
        /\ RunStarts = {} => st.avgPeriodLength = 5
        /\ st = calculateCycleStats(
                  logs,
                  [avgCycleLength |-> <<28>>, avgPeriodLength |-> <<5>>,
                   lastPeriodStartManual |->
                     Optional(sett, "lastPeriodStartManual")],
                  today)

\* C18 witness: one period is logged, so the cycle length comes from the
\* settings, and the engine called without settings predicts from 28
C18_Witness ==
  /\ Cardinality(RunStarts) = 1
  /\ logs # EmptyLogs
  /\ calculateCycleStats(logs, Null, today).avgCycleLength = 28
  /\ calculateCycleStats(logs, Null, today).nextPeriodDate
       = formatDate(SetMax(RunStarts) + 28)

\* the dates saved by the queued updates, and the last log queued for a date
SavedDates(queue) == {queue[i].log.date : i \in 1..Len(queue)}
LastSaved(queue, date) ==
  queue[SetMax({i \in 1..Len(queue) : queue[i].log.date = date})].log

\* C16: saving is an upsert keyed by date: after handleSaveLog(L) the
\* collection maps L.date to L and every other date keeps its entry; when
\* several saves are issued before the state is rendered again, saves for
\* different dates are all retained and for one date the later save wins.
C16_Upsert ==
  [][(/\ pending # <<>>
      /\ pending' = <<>>
      /\ \A i \in 1..Len(pending) : "log" \in DOMAIN pending[i])
     => /\ DOMAIN logs' = DOMAIN logs \cup SavedDates(pending)
        /\ \A date \in SavedDates(pending) :
             logs'[date] = LastSaved(pending, date)
        /\ \A date \in DOMAIN logs \ SavedDates(pending) :
             logs'[date] = logs[date]]_vars

\* C16 witness: with an entry for one date rendered, two saves for the other
\* date are queued, the later one with the period flag changed
C16_Witness ==
  /\ DOMAIN logs = {formatDate(FirstDay)}
  /\ Len(pending) = 2
  /\ "log" \in DOMAIN pending[1]
  /\ "log" \in DOMAIN pending[2]
  /\ pending[1].log.date = formatDate(FirstDay + 1)
  /\ pending[2].log.date = formatDate(FirstDay + 1)
  /\ pending[1].log.isPeriod
  /\ ~pending[2].log.isPeriod

\* the updates of a queue that address one piece of state
UpdatesOf(queue, target) ==
  LET Addresses(update) == update.target = target
  IN  SelectSeq(queue, Addresses)

\* what start-up queues for a stored item: nothing when the item is absent or
\* cannot be parsed, its parsed value otherwise
QueuedAsStored(item, queue, target) ==
  IF item = Null \/ item = CorruptText
  THEN UpdatesOf(queue, target) = <<>>
  ELSE UpdatesOf(queue, target) = <<[target |-> target, value |-> item.value]>>

\* what the first render after start-up installs: the queued value, or the
\* fallback when none is queued
InstalledAsQueued(new, queue, target, fallback) ==
  IF UpdatesOf(queue, target) = <<>> THEN new = fallback
  ELSE new = UpdatesOf(queue, target)[1].value

\* C19: when the stored logs string or the stored settings string cannot be
\* parsed at start-up, the app does not crash: that value stays at its fallback
\* (empty logs, default settings with cycle 28 and period 5) and the other
\* stored value is still loaded.
C19_CorruptStart ==
  [][/\ (pc = "mount" /\ pc' = "loaded") =>
          /\ QueuedAsStored(storage.logs, pending', "logs")
          /\ QueuedAsStored(storage.settings, pending', "settings")
     /\ (pc = "persisted" /\ pc' = "running") =>
          /\ InstalledAsQueued(logs', pending, "logs", EmptyLogs)
          /\ InstalledAsQueued(settings', pending, "settings",
                               [avgCycleLength |-> <<28>>,
                                avgPeriodLength |-> <<5>>,
                                lastPeriodStartManual |-> Null])
          /\ storage.settings = CorruptText =>
               /\ settings'.avgCycleLength = <<28>>
               /\ settings'.avgPeriodLength = <<5>>
          /\ (storage.settings # Null /\ storage.settings # CorruptText) =>
               settings' = storage.settings.value
          /\ IsCompleteStats(stats')
          /\ stats' = calculateCycleStats(logs', settings', today)]_vars

\* C19 witness: the stored logs cannot be parsed, the stored settings can, and
\* the mount effect has queued the settings only
C19_Witness ==
  /\ pc = "loaded"
  /\ storage.logs = CorruptText
  /\ storage.settings # Null
  /\ storage.settings # CorruptText
  /\ Len(pending) = 1
  /\ pending[1].target = "settings"

\* the fields of UserSettings that the engine reads
SettingsFields == {"avgCycleLength", "avgPeriodLength", "lastPeriodStartManual"}

\* C20: UserSettings are persisted on every change: after any edit made in the
\* settings form the stored settings equal the settings in memory, field for
\* field, without a further user action.
C20_PersistedOnChange ==
  [][(pc = "running" /\ pc' = "running" /\ settings' # settings) =>
       /\ storage'.settings # Null
       /\ storage'.settings.parses
       /\ \A f \in SettingsFields :
            Optional(storage'.settings.value, f) = Optional(settings', f)]_vars

ZeroSettings ==
  [avgCycleLength        |-> <<0>>,
   avgPeriodLength       |-> <<0>>,
   lastPeriodStartManual |-> settings.lastPeriodStartManual]

\* C21: no division or modulo has a zero divisor: whenever the history block
\* divides, the number of intervals and the number of groups are at least 1,
\* and the avgCycleLength used as modulus by calculateCycleStats and by
\* getDayStatus is never 0, whatever the settings (a zero length included).
C21_NoZeroDivisor ==
  /\ Len(CurrentPeriods) > 1 => Len(CycleIntervals(CurrentPeriods)) >= 1
  /\ PeriodDayNumbers # {} => Len(CurrentPeriods) >= 1
  /\ stats.avgCycleLength # 0
  /\ calculateCycleStats(logs, ZeroSettings, today).avgCycleLength # 0
  /\ calculateCycleStats(logs, Null, today).avgCycleLength # 0

\* two groups are logged, so both divisions are made, and the modulus is taken
C21_Witness ==
  /\ Len(CurrentPeriods) = 2
  /\ calculateCycleStats(logs, ZeroSettings, today).currentDayOfCycle # Null
  /\ stats.currentDayOfCycle # Null

\* the date a queued update removes: the one its copy of the logs lacks
DeletedDates(update) ==
  IF "value" \in DOMAIN update THEN DOMAIN logs \ DOMAIN update.value ELSE {}

\* the queued save at position i is followed neither by a save nor by a delete
\* for its date
StandsAt(queue, i) ==
  /\ "log" \in DOMAIN queue[i]
  /\ \A j \in (i + 1)..Len(queue) :
       /\ "log" \in DOMAIN queue[j] => queue[j].log.date # queue[i].log.date
       /\ queue[i].log.date \notin DeletedDates(queue[j])

\* C22: handleDeleteLog(date) removes exactly the entry for that date: every
\* other entry is left as it is, an entry written by a handleSaveLog for
\* another date issued after the render the delete handler took its logs from
\* included.
C22_DeleteExactly ==
  [][(pending # <<>> /\ pending' = <<>>)
     => \A i \in 1..Len(pending) :
          StandsAt(pending, i)
            => /\ pending[i].log.date \in DOMAIN logs'
               /\ logs'[pending[i].log.date] = pending[i].log]_vars

\* the stored logs item holds at least one entry
HoldsEntries(item) ==
  /\ item # Null
  /\ item.parses
  /\ DOMAIN item.value # {}

\* C23: at start-up with non-empty logs stored, no step of the start-up
\* (load effect, write-on-change effect, render of the loaded values) replaces
\* the stored logs by the empty collection, and when the start-up has finished
\* the logs in memory and the stored logs are the ones stored before it.
C23_StoredLogsKept ==
  [][/\ (pc \in {"mount", "loaded", "persisted"} /\ HoldsEntries(storage.logs))
          => storage'.logs # StringifyLogs(EmptyLogs)
     /\ (/\ pc = "persisted"
         /\ pc' = "running"
         /\ UpdatesOf(pending, "logs") # <<>>
         /\ DOMAIN UpdatesOf(pending, "logs")[1].value # {})
          => /\ logs' = UpdatesOf(pending, "logs")[1].value
             /\ storage'.logs = StringifyLogs(logs')]_vars

\* the dates of the cycle that starts at the anchor
AnchorCycleDays ==
  parseISO(stats.lastPeriodStart)
    ..(parseISO(stats.lastPeriodStart) + stats.avgCycleLength - 1)

\* C24: when stats.ovulationDate is on or after lastPeriodStart and its day of
\* cycle is greater than avgPeriodLength, getDayStatus gives it the ovulatory
\* phase; and every date of the cycle starting at the anchor that gets the
\* ovulatory phase is a member of stats.fertileWindow.
C24_OvulationAgrees ==
  stats.nextPeriodDate # Null =>
    LET ovulation == parseISO(stats.ovulationDate)
    IN  /\ ( /\ ovulation >= parseISO(stats.lastPeriodStart)
             /\ getDayStatus(ovulation).dayOfCycle[1] > stats.avgPeriodLength )
           => getDayStatus(ovulation).phase = "ovulatoria"
        /\ \A day \in AnchorCycleDays :
             getDayStatus(day).phase = "ovulatoria"
               => \E k \in DOMAIN stats.fertileWindow :
                    stats.fertileWindow[k] = formatDate(day)

\* a 20-day cycle with a 4-day period: the ovulation date is day 7 of the
\* cycle, and days 5 to 7 are ovulatory
C24_Witness ==
  /\ stats.nextPeriodDate # Null
  /\ stats.avgCycleLength = 20
  /\ stats.avgPeriodLength = 4
  /\ parseISO(stats.ovulationDate) = parseISO(stats.lastPeriodStart) + 6
  /\ getDayStatus(parseISO(stats.ovulationDate)).phase = "ovulatoria"
  /\ {day \in AnchorCycleDays : getDayStatus(day).phase = "ovulatoria"}
       = (parseISO(stats.lastPeriodStart) + 4)..(parseISO(stats.lastPeriodStart) + 6)

\* the logs with the other fields of every entry filled in
WithDetails(lg) ==
  [k \in DOMAIN lg |->
     [date        |-> lg[k].date,
      isPeriod    |-> lg[k].isPeriod,
      intensity   |-> "heavy",
      symptoms    |-> <<"cramps">>,
      moods       |-> <<"tired">>,
      notes       |-> "note",
      waterIntake |-> 3,
      sleepHours  |-> 7]]

\* the logs after one change that touches no period day: an entry with
\* isPeriod off is added, saved again or deleted, or the other fields of the
\* entries are changed
FrameEdits ==
  {WithDetails(logs)}
    \cup {Without(logs, k) : k \in {kk \in DOMAIN logs : ~logs[kk].isPeriod}}
    \cup {Upsert(logs, [date |-> formatDate(d), isPeriod |-> FALSE]) :
            d \in {dd \in LogDays : \/ formatDate(dd) \notin DOMAIN logs
                                    \/ ~logs[formatDate(dd)].isPeriod}}

\* C25: only period days influence the stats: adding, editing or deleting a
\* log whose isPeriod is false, or changing symptoms, moods, notes, intensity,
\* waterIntake or sleepHours of any log, leaves every field of the result of
\* calculateCycleStats unchanged.
C25_OnlyPeriodDays ==
  \A lg \in FrameEdits :
    calculateCycleStats(lg, settings, today)
      = calculateCycleStats(logs, settings, today)

\* two period groups with a log that is no period day between them, and a
\* current day of cycle
C25_Witness ==
  /\ Len(CurrentPeriods) = 2
  /\ \E k \in DOMAIN logs : ~logs[k].isPeriod
  /\ stats.currentDayOfCycle # Null
  /\ Cardinality(FrameEdits) >= 3

\* the groups one after the other
RECURSIVE Flatten(_)
Flatten(groups) ==
  IF groups = <<>> THEN <<>> ELSE Head(groups) \o Flatten(Tail(groups))

\* C26: the period groups partition the logged period days: the groups are
\* disjoint and ascending, their lengths add up to the number of logs with
\* isPeriod on, and successive group starts are at least 2 days apart; hence,
\* when computed from the history, avgPeriodLength >= 1 and avgCycleLength >= 2.
C26_GroupsPartition ==
  LET periods == CurrentPeriods
      flat    == Flatten(periods)
  IN  /\ \A i \in 1..Len(periods) : Len(periods[i]) >= 1
      /\ \A i \in 1..(Len(flat) - 1) : parseISO(flat[i]) < parseISO(flat[i + 1])
      /\ {flat[i] : i \in 1..Len(flat)} = {k \in DOMAIN logs : logs[k].isPeriod}
      /\ SumSeq(PeriodLengths(periods))
           = Cardinality({k \in DOMAIN logs : logs[k].isPeriod})
      /\ \A i \in 1..(Len(periods) - 1) :
           parseISO(periods[i + 1][1]) - parseISO(periods[i][1]) >= 2
      /\ Len(periods) > 0 => stats.avgPeriodLength >= 1
      /\ Len(periods) > 1 => stats.avgCycleLength >= 2

\* two groups, the first of two days, with starts 3 days apart, while the
\* stored settings hold no cycle length and the period length 0
C26_Witness ==
  /\ Len(CurrentPeriods) = 2
  /\ Len(CurrentPeriods[1]) = 2
  /\ parseISO(CurrentPeriods[2][1]) - parseISO(CurrentPeriods[1][1]) = 3
  /\ settings.avgCycleLength = Null
  /\ settings.avgPeriodLength = <<0>>
  /\ stats.avgCycleLength = 3
  /\ stats.avgPeriodLength = 2

\* the predictive fields of a stats value are all absent or all present
AllOrNothing(st) ==
  /\ \/ /\ st.lastPeriodStart = Null
        /\ st.nextPeriodDate = Null
        /\ st.ovulationDate = Null
        /\ st.fertileWindow = <<>>
     \/ /\ st.lastPeriodStart # Null
        /\ st.nextPeriodDate # Null
        /\ st.ovulationDate # Null
        /\ Len(st.fertileWindow) = 5
  /\ st.currentDayOfCycle # Null => st.lastPeriodStart # Null

\* C27: the predictive fields are all-or-nothing: lastPeriodStart,
\* nextPeriodDate and ovulationDate are all null and fertileWindow is empty, or
\* they are all non-null and fertileWindow has 5 entries; currentDayOfCycle is
\* non-null only if lastPeriodStart is non-null.
C27_AllOrNothing ==
  /\ AllOrNothing(stats)
  /\ AllOrNothing(calculateCycleStats(logs, settings, today))

\* an anchor after the current day: the predictions are there, the current day
\* of cycle is not
C27_Witness ==
  /\ stats.lastPeriodStart # Null
  /\ Len(stats.fertileWindow) = 5
  /\ stats.currentDayOfCycle = Null
  /\ parseISO(stats.lastPeriodStart) > statsDay

\* C28: while lastPeriodStart <= today < nextPeriodDate the two numbers shown
\* for today are consistent: currentDayOfCycle plus the days from today to
\* nextPeriodDate, as nextPeriodIn holds them, is avgCycleLength + 1; and
\* nextPeriodDate depends on the anchor and avgCycleLength only, not on today.
\* (today is taken as the day of the last render, the day the stats are of.)
C28_TodayNumbers ==
  ( /\ stats.lastPeriodStart # Null
    /\ parseISO(stats.lastPeriodStart) <= statsDay
    /\ statsDay < parseISO(stats.nextPeriodDate) )
  => /\ stats.currentDayOfCycle # Null
     /\ nextPeriodIn # Null
     /\ stats.currentDayOfCycle[1] + nextPeriodIn[1] = stats.avgCycleLength + 1
     /\ stats.nextPeriodDate
          = formatDate(parseISO(stats.lastPeriodStart) + stats.avgCycleLength)

\* C29: for every stats with a valid anchor and avgCycleLength >= 1,
\* getDayStatus(stats.nextPeriodDate) has isPredictedPeriod true and
\* dayOfCycle 1, and its phase is menstrual whenever avgPeriodLength >= 1.
C29_NextPeriodIsDayOne ==
  (stats.nextPeriodDate # Null /\ stats.avgCycleLength >= 1) =>
    LET status == getDayStatus(parseISO(stats.nextPeriodDate))
    IN  /\ status.isPredictedMenstruation
        /\ status.dayOfCycle = <<1>>
        /\ stats.avgPeriodLength >= 1 => status.phase = "menstrual"

\* a cycle of one day and a period of one day: the predicted day is the day
\* after the anchor and is day 1 again
C29_Witness ==
  /\ stats.nextPeriodDate # Null
  /\ stats.avgCycleLength = 1
  /\ stats.avgPeriodLength = 1
  /\ parseISO(stats.nextPeriodDate) = parseISO(stats.lastPeriodStart) + 1
  /\ getDayStatus(parseISO(stats.nextPeriodDate)).dayOfCycle = <<1>>
  /\ getDayStatus(parseISO(stats.nextPeriodDate)).phase = "menstrual"

\* C30: in the day-entry modal, after any sequence of clicks on the increment
\* and decrement buttons starting from a non-negative value, the water and the
\* sleep counter are integers >= 0, so every DayLog passed to onSave has
\* waterIntake >= 0 and sleepHours >= 0.
C30_CountersNonNegative ==
  /\ modal # Null =>
       /\ modal.water \in Nat
       /\ modal.sleep \in Nat
       /\ ModalLog.waterIntake >= 0
       /\ ModalLog.sleepHours >= 0
  /\ \A date \in DOMAIN logs :
       /\ "waterIntake" \in DOMAIN logs[date] => logs[date].waterIntake \in Nat
       /\ "sleepHours" \in DOMAIN logs[date] => logs[date].sleepHours \in Nat

\* the entry saved with both counters clicked down to 0 is opened again
C30_Witness ==
  /\ modal # Null
  /\ modal.water = 0
  /\ modal.sleep = 0
  /\ ModalDay \in DOMAIN logs
  /\ FieldOr(ModalDay, "sleepHours", 8) = 0
  /\ FieldOr(ModalDay, "waterIntake", 1) = 0

====
